---- MODULE Spec2Model ----
(***************************************************************************)
(* A model of the CRM mutation layer of crm/schema.py over the entities of *)
(* crm/models.py.  Text values are sequences of one-character strings, so  *)
(* that the phone pattern and the e-mail syntax are computed rather than   *)
(* assumed.  Money is counted in whole currency units.                     *)
(***************************************************************************)
EXTENDS Integers, Naturals, Sequences, FiniteSets, TLC

VARIABLES
    customers,       \* committed rows of the Customer table
    products,        \* committed rows of the Product table
    orders,          \* committed rows of the Order table
    order_products,  \* the Order-Product association: pairs <<order id, product id>>
    priceAt,         \* history: order id -> the price of every product when the order was created
    last,            \* the call that completed last: its arguments, its outcome, the tables before it
    pc,              \* per concurrent request: the statement it is about to execute
    req,             \* per concurrent request: its arguments and local variables
    pending,         \* per concurrent request: rows written by its open transaction
    outcome          \* per concurrent request: what the finished call gave back

vars == <<customers, products, orders, order_products, priceAt, last, pc, req, pending, outcome>>

-----------------------------------------------------------------------------
(* Bounds of the model *)

MaxRows == 3        \* rows of one bulkCreateCustomers input

-----------------------------------------------------------------------------
(* Text *)

Digits == {"0", "1", "2", "3", "4", "5", "6", "7", "8", "9"}

None == <<"None">>          \* Python's None for an optional text argument

Truthy(s) == s # None /\ s # <<>>     \* `if phone:`

Repeat(c, n) == [i \in 1..n |-> c]

-----------------------------------------------------------------------------
(* crm/models.py: Customer *)

Customer_name_max_length == 255
Customer_email_max_length == 254
Customer_phone_max_length == 20

\* the e-mail column declared without unique=True
Customer_email_not_unique == FALSE

\* email = models.EmailField(unique=True)
Customer_email_unique == TRUE

\* the lookup made on the wrong column
CustomersWithEmailByName(table, email) == {c \in table : c.name = email}

\* Customer.objects.filter(email=email)
CustomersWithEmail(table, email) == {c \in table : c.email = email}

NoMsg == <<>>
Msg(text, arg) == [text |-> text, arg |-> arg]

\* EmailField's syntax check: one "@", a non-empty user part, a dotted domain
AtPositions(e) == {i \in 1..Len(e) : e[i] = "@"}
EmailSyntaxOK(e) ==
    /\ Cardinality(AtPositions(e)) = 1
    /\ LET at == CHOOSE i \in AtPositions(e) : TRUE
       IN  /\ at > 1
           /\ \E j \in (at + 2)..(Len(e) - 1) : e[j] = "."
           /\ e[at + 1] # "." /\ e[Len(e)] # "."

\* Model.clean_fields, one field at a time, in the order the fields are declared
CleanName(name) ==
    IF name = None \/ name = <<>> THEN <<Msg("This field cannot be blank.", <<"name">>)>>
    ELSE IF Len(name) > Customer_name_max_length
         THEN <<Msg("Ensure this value has at most 255 characters", <<"name">>)>>
         ELSE NoMsg

CleanEmail(email) ==
    IF email = None \/ email = <<>> THEN <<Msg("This field cannot be blank.", <<"email">>)>>
    ELSE (IF EmailSyntaxOK(email) THEN NoMsg
          ELSE <<Msg("Enter a valid email address.", <<"email">>)>>)
      \o (IF Len(email) > Customer_email_max_length
          THEN <<Msg("Ensure this value has at most 254 characters", <<"email">>)>>
          ELSE NoMsg)

CleanPhone(phone) ==
    IF phone = None \/ phone = <<>> THEN NoMsg      \* blank=True, null=True
    ELSE IF Len(phone) > Customer_phone_max_length
         THEN <<Msg("Ensure this value has at most 20 characters", <<"phone">>)>>
         ELSE NoMsg

\* Model.validate_unique: the unique check of a field is skipped when the field
\* itself failed clean_fields
ValidateUnique(table, c) ==
    IF /\ Customer_email_unique
       /\ CleanEmail(c.email) = NoMsg
       /\ CustomersWithEmail(table, c.email) # {}
    THEN <<Msg("Customer with this Email already exists.", <<"email">>)>>
    ELSE NoMsg

\* customer.full_clean(): the messages of the ValidationError it raises, none when it passes
full_clean(table, c) ==
    CleanName(c.name) \o CleanEmail(c.email) \o CleanPhone(c.phone) \o ValidateUnique(table, c)

-----------------------------------------------------------------------------
(* crm/schema.py: helper validation functions *)

\* the two alternatives of the pattern, each matched against a whole string
MatchPlusDigits(s) ==
    /\ Len(s) >= 2 /\ Len(s) <= 16
    /\ s[1] = "+"
    /\ \A i \in 2..Len(s) : s[i] \in Digits

MatchDashed(s) ==
    /\ Len(s) = 12
    /\ \A i \in 1..12 : IF i \in {4, 8} THEN s[i] = "-" ELSE s[i] \in Digits

\* re.match(r'^(\+\d{1,15}|\d{3}-\d{3}-\d{4})$', phone): without re.MULTILINE "$"
\* matches at the end of the string and also just before a newline that ends it
PhonePatternMatches(phone) ==
    \/ MatchPlusDigits(phone) \/ MatchDashed(phone)
    \/ /\ Len(phone) >= 1 /\ phone[Len(phone)] = "\n"
       /\ LET body == SubSeq(phone, 1, Len(phone) - 1)
          IN  MatchPlusDigits(body) \/ MatchDashed(body)

validate_phone(phone) ==
    IF PhonePatternMatches(phone) THEN NoMsg
    ELSE <<Msg("Phone must be in +1234567890 or 123-456-7890 format", <<>>)>>

validate_email_unique(table, email) ==
    IF CustomersWithEmail(table, email) # {}
    THEN <<Msg("Email already exists", email)>>
    ELSE NoMsg

-----------------------------------------------------------------------------
(* Storage *)

MaxOf(S) == IF S = {} THEN 0 ELSE CHOOSE m \in S : \A x \in S : x <= m

\* AutoField: the next primary key of a table
NextId(table) == MaxOf({r.id : r \in table}) + 1

\* customer.save(): the INSERT fails on the unique index of email
SaveRaises(table, c) == Customer_email_unique /\ CustomersWithEmail(table, c.email) # {}

\* the validation part of one customer row, shared by CreateCustomer.mutate and
\* BulkCreateCustomers.mutate: validate_email_unique, validate_phone, full_clean
RowMessages(table, c) ==
    LET m1 == validate_email_unique(table, c.email)
        m2 == IF Truthy(c.phone) THEN validate_phone(c.phone) ELSE NoMsg
    IN  IF m1 # NoMsg THEN m1
        ELSE IF m2 # NoMsg THEN m2
        ELSE full_clean(table, c)

NewCustomer(table, data) ==
    [id |-> NextId(table), name |-> data.name, email |-> data.email, phone |-> data.phone]

-----------------------------------------------------------------------------
(* CreateCustomer.mutate, run to completion *)

CreateCustomerResult(table, data) ==
    LET c == NewCustomer(table, data)
        msgs == RowMessages(table, c)
    IN  IF msgs # NoMsg
        THEN [table |-> table, raised |-> "",
              customer |-> {}, message |-> "Customer creation failed", errors |-> msgs]
        ELSE IF SaveRaises(table, c)
        THEN [table |-> table, raised |-> "IntegrityError",
              customer |-> {}, message |-> "", errors |-> NoMsg]
        ELSE [table |-> table \cup {c}, raised |-> "",
              customer |-> {c}, message |-> "Customer created successfully", errors |-> NoMsg]

(* BulkCreateCustomers.mutate, run to completion: the loop over the rows from k on *)
RECURSIVE BulkLoop(_, _, _, _, _)
BulkLoop(table, input, k, created, errors) ==
    IF k > Len(input)
    THEN [table |-> table, raised |-> "", customers |-> created, errors |-> errors]
    ELSE LET c == NewCustomer(table, input[k])
             msgs == RowMessages(table, c)
         IN  IF msgs # NoMsg
             THEN BulkLoop(table, input, k + 1, created, errors \o msgs)
             ELSE IF SaveRaises(table, c)
             THEN [table |-> table, raised |-> "IntegrityError",
                   customers |-> <<>>, errors |-> NoMsg]
             ELSE BulkLoop(table \cup {c}, input, k + 1, Append(created, c), errors)

\* @transaction.atomic: an exception that leaves mutate rolls every row back
BulkCreateCustomersResult(table, input) ==
    LET r == BulkLoop(table, input, 1, <<>>, NoMsg)
    IN  IF r.raised # "" THEN [r EXCEPT !.table = table] ELSE r

-----------------------------------------------------------------------------
(* Arguments the model calls the customer mutations with *)

NameSamples == {<<>>, <<"A">>}

EmailA == <<"a", "@", "x", ".", "c">>
EmailB == <<"b", "@", "x", ".", "c">>
EmailSamples == {<<>>, EmailA, EmailB, <<"a", "x", ".", "c">>}

PhoneSamples ==
    { None, <<>>,
      <<"+", "1">>,
      <<"+">> \o Repeat("1", 15),
      <<"+">> \o Repeat("1", 16),
      <<"+">>,
      <<"1", "2", "3", "-", "4", "5", "6", "-", "7", "8", "9", "0">>,
      <<"1", "2", "3", "-", "4", "5", "6", "-", "7", "8", "9">>,
      <<"1", "2", "3", "4", "5", "6", "7", "8", "9", "0">>,
      <<"+", "1", "\n">>,
      <<"+", "1", "x">> }

CustomerInputs == [name : NameSamples, email : EmailSamples, phone : PhoneSamples]

Row(name, email, phone) == [name |-> name, email |-> email, phone |-> phone]

\* rows of a bulk input: valid ones, and one of every kind of invalid row
BulkRowInputs ==
    { Row(<<"A">>, EmailA, None),
      Row(<<"A">>, EmailB, <<"+", "1">>),
      Row(<<>>, EmailB, None),
      Row(<<>>, <<>>, None),
      Row(<<"A">>, EmailB, <<"1", "2">>),
      Row(<<"A">>, EmailB, <<"+", "1", "\n">>) }

SeqsUpTo(S, n) == UNION {[1..k -> S] : k \in 0..n}

-----------------------------------------------------------------------------
(* The customer mutations, one call at a time *)

NoCall == [op |-> "none"]

CreateCustomer ==
    \E data \in CustomerInputs :
        LET r == CreateCustomerResult(customers, data)
        IN  /\ customers' = r.table
            /\ last' = [op |-> "createCustomer", args |-> data, pre |-> customers,
                        raised |-> r.raised, customer |-> r.customer,
                        message |-> r.message, errors |-> r.errors]
            /\ UNCHANGED <<products, orders, order_products, priceAt, pc, req, pending, outcome>>

BulkCreateCustomers ==
    \E input \in SeqsUpTo(BulkRowInputs, MaxRows) :
        LET r == BulkCreateCustomersResult(customers, input)
        IN  /\ customers' = r.table
            /\ last' = [op |-> "bulkCreateCustomers", args |-> input, pre |-> customers,
                        raised |-> r.raised, customers |-> r.customers, errors |-> r.errors]
            /\ UNCHANGED <<products, orders, order_products, priceAt, pc, req, pending, outcome>>

Requests == {1, 2}

Init ==
    /\ customers = {}
    /\ products = {}
    /\ orders = {}
    /\ order_products = {}
    /\ priceAt = <<>>
    /\ last = NoCall
    /\ pc = [p \in Requests |-> "idle"]
    /\ req = [p \in Requests |-> <<>>]
    /\ pending = [p \in Requests |-> {}]
    /\ outcome = [p \in Requests |-> <<>>]

\* the customer mutations called one after the other
NextCreateCustomer == CreateCustomer
SpecCreateCustomer == Init /\ [][NextCreateCustomer]_vars

NextBulk == BulkCreateCustomers
SpecBulk == Init /\ [][NextBulk]_vars

-----------------------------------------------------------------------------
(* What the specification calls a well-formed customer *)

PhoneGiven(phone) == phone # None /\ phone # <<>>

\* "+" followed by 1 to 15 digits, or NNN-NNN-NNNN
AcceptedPhoneFormat(phone) ==
    \/ \E n \in 1..15 :
          /\ Len(phone) = n + 1
          /\ phone[1] = "+"
          /\ \A i \in 2..(n + 1) : phone[i] \in Digits
    \/ /\ Len(phone) = 12
       /\ phone[4] = "-" /\ phone[8] = "-"
       /\ \A i \in {1, 2, 3, 5, 6, 7, 9, 10, 11, 12} : phone[i] \in Digits

MissingField(data) == data.name = <<>> \/ data.email = <<>>

BadPhone(data) == PhoneGiven(data.phone) /\ ~AcceptedPhoneFormat(data.phone)

ValidCustomerInput(data) ==
    /\ ~MissingField(data)
    /\ EmailSyntaxOK(data.email)
    /\ ~BadPhone(data)

EmailsOf(table) == {c.email : c \in table}

RecordsWithEmail(table, email) == {c \in table : c.email = email}

IsDuplicateEmailError(errors) ==
    /\ errors # NoMsg
    /\ \A i \in 1..Len(errors) :
          errors[i].text \in {"Email already exists", "Customer with this Email already exists."}

SameFields(c, data) == c.name = data.name /\ c.email = data.email /\ c.phone = data.phone

\* the rows of a bulk input that the specification accepts, among the first k
RECURSIVE AcceptedRows(_, _, _)
AcceptedRows(input, pre, k) ==
    IF k = 0 THEN {}
    ELSE LET before == AcceptedRows(input, pre, k - 1)
             taken == EmailsOf(pre) \cup {input[j].email : j \in before}
         IN  IF ~MissingField(input[k]) /\ ~BadPhone(input[k]) /\ input[k].email \notin taken
             THEN before \cup {k}
             ELSE before

-----------------------------------------------------------------------------
(* Claims about the customer mutations called one after the other *)

\* C3: a bulkCreateCustomers call persists every valid row and skips every invalid
\* row (missing field, bad phone format, e-mail of an existing customer or of an
\* earlier accepted row); no row accepted earlier, and no existing row, is lost.
C3_BulkPersistsExactlyTheValidRows ==
    last.op = "bulkCreateCustomers" =>
        LET input == last.args
            acc == AcceptedRows(input, last.pre, Len(input))
            new == customers \ last.pre
        IN  /\ last.raised = ""
            /\ last.pre \subseteq customers
            /\ \A k \in acc : \E c \in new : SameFields(c, input[k])
            /\ \A c \in new : \E k \in acc : SameFields(c, input[k])
            /\ Cardinality(new) = Cardinality(acc)

\* C3 without the phone format: every row accepted by the call stays committed
\* whatever follows it in the same input, and no existing row is lost.
C3_NoRollbackOfAcceptedRows ==
    last.op = "bulkCreateCustomers" =>
        /\ last.pre \subseteq customers
        /\ \A i \in 1..Len(last.customers) : last.customers[i] \in customers
        /\ customers = last.pre \cup {last.customers[i] : i \in 1..Len(last.customers)}

\* C4 (first call): createCustomer with a valid input whose e-mail is not yet
\* stored creates the customer.
C4_FirstCallCreates ==
    (/\ last.op = "createCustomer"
     /\ ValidCustomerInput(last.args)
     /\ last.args.email \notin EmailsOf(last.pre))
    => /\ last.raised = ""
       /\ \E c \in customers \ last.pre :
             /\ SameFields(c, last.args)
             /\ last.customer = {c}
             /\ customers = last.pre \cup {c}

\* C4 (second call): the createCustomer call that follows a successful one with
\* the same e-mail returns a duplicate-email error and stores nothing.
C4_SecondCallConflicts ==
    (/\ last.op = "createCustomer"
     /\ last.customer # {}
     /\ last'.op = "createCustomer"
     /\ last'.args.email = last.args.email)
    => /\ last'.raised = ""
       /\ last'.customer = {}
       /\ IsDuplicateEmailError(last'.errors)
       /\ customers' = customers
       /\ Cardinality(RecordsWithEmail(customers', last.args.email)) = 1

\* C4: for any valid customer input, createCustomer called twice in sequence with
\* the same e-mail succeeds exactly once: the first call creates the customer, the
\* second returns a duplicate-email error, and one record with that e-mail exists.
C4_CreateTwiceSucceedsOnce ==
    /\ []C4_FirstCallCreates
    /\ [][C4_SecondCallConflicts]_vars

\* a second call with a valid input was rejected for its e-mail alone
C4_Witness ==
    /\ last.op = "createCustomer"
    /\ ValidCustomerInput(last.args)
    /\ IsDuplicateEmailError(last.errors)
    /\ customers = last.pre
    /\ Cardinality(RecordsWithEmail(customers, last.args.email)) = 1

\* C5: createCustomer with an empty name or e-mail, or with a phone in neither
\* accepted format, returns errors and no customer, and stores nothing.
C5_InvalidInputIsRejected ==
    (/\ last.op = "createCustomer"
     /\ MissingField(last.args) \/ BadPhone(last.args))
    => /\ last.raised = ""
       /\ last.customer = {}
       /\ last.errors # NoMsg
       /\ customers = last.pre

\* C7: bulkCreateCustomers returns one error entry per rejected row: customers
\* created plus error entries equals input rows.
C7_OneErrorPerRejectedRow ==
    last.op = "bulkCreateCustomers" =>
        /\ last.raised = ""
        /\ Len(last.customers) + Len(last.errors) = Len(last.args)

-----------------------------------------------------------------------------
(* Concurrent requests: createCustomer and bulkCreateCustomers, one statement *)
(* at a time.  A request reads the committed rows and the rows of its own     *)
(* open transaction; the unique index of email covers every row, committed or *)
(* not, and an INSERT that meets another transaction's uncommitted row waits  *)
(* for that transaction to end.                                               *)

MaxConcRows == 2    \* rows of one bulkCreateCustomers input of a concurrent request

ConcRowInputs ==
    { Row(<<"A">>, EmailA, None),
      Row(<<"A">>, EmailB, None),
      Row(<<>>, EmailA, None) }

Visible(p) == customers \cup pending[p]

AllRows == customers \cup UNION {pending[q] : q \in Requests}

CurrentRow(p) == req[p].input[req[p].k]

\* the primary key the store gives a row inserted by a concurrent request: a key
\* that no row holds, committed or not (the least one, which keeps the keys of
\* rolled-back rows from growing without bound)
FreshId == CHOOSE i \in 1..(Cardinality(AllRows) + 1) :
              /\ i \notin {r.id : r \in AllRows}
              /\ \A j \in 1..(i - 1) : j \in {r.id : r \in AllRows}

ConcCustomer(p) == [NewCustomer({}, CurrentRow(p)) EXCEPT !.id = FreshId]

\* the INSERT of request p waits for request q
WaitsFor(p, q) ==
    /\ p # q
    /\ pc[p] = "save"
    /\ Customer_email_unique
    /\ CustomersWithEmail(pending[q], CurrentRow(p).email) # {}

Raised(kind) == [raised |-> kind]

\* where the loop of BulkCreateCustomers.mutate goes after row k
AfterRow(p) == IF req[p].k + 1 > Len(req[p].input) THEN "commit" ELSE "precheck"

\* except ValidationError as e: the row, or the call, ends with the messages of e
RowFails(p, msgs) ==
    IF req[p].op = "createCustomer"
    THEN /\ outcome' = [outcome EXCEPT ![p] =
                [raised |-> "", customer |-> {},
                 message |-> "Customer creation failed", errors |-> msgs]]
         /\ pc' = [pc EXCEPT ![p] = "done"]
         /\ UNCHANGED req
    ELSE /\ req' = [req EXCEPT ![p].errors = @ \o msgs, ![p].k = @ + 1]
         /\ pc' = [pc EXCEPT ![p] = AfterRow(p)]
         /\ UNCHANGED outcome

\* an exception other than ValidationError leaves mutate: the open transaction,
\* if any, is rolled back
CallRaises(p, kind) ==
    /\ pending' = [pending EXCEPT ![p] = {}]
    /\ outcome' = [outcome EXCEPT ![p] = Raised(kind)]
    /\ pc' = [pc EXCEPT ![p] = "done"]
    /\ UNCHANGED <<customers, req>>

CallCreateCustomer(p) ==
    /\ UNCHANGED <<products, orders, order_products, priceAt, last>>
    /\ pc[p] = "idle"
    /\ \E data \in ConcRowInputs :
          req' = [req EXCEPT ![p] =
                    [op |-> "createCustomer", input |-> <<data>>, k |-> 1,
                     created |-> <<>>, errors |-> NoMsg]]
    /\ pc' = [pc EXCEPT ![p] = "precheck"]
    /\ UNCHANGED <<customers, pending, outcome>>

CallBulkCreateCustomers(p) ==
    /\ UNCHANGED <<products, orders, order_products, priceAt, last>>
    /\ pc[p] = "idle"
    /\ \E input \in SeqsUpTo(ConcRowInputs, MaxConcRows) :
          /\ req' = [req EXCEPT ![p] =
                       [op |-> "bulkCreateCustomers", input |-> input, k |-> 1,
                        created |-> <<>>, errors |-> NoMsg]]
          /\ pc' = [pc EXCEPT ![p] = IF Len(input) = 0 THEN "commit" ELSE "precheck"]
    /\ UNCHANGED <<customers, pending, outcome>>

\* validate_email_unique(email); if phone: validate_phone(phone)
PreCheck(p) ==
    /\ UNCHANGED <<products, orders, order_products, priceAt, last>>
    /\ pc[p] = "precheck"
    /\ LET data == CurrentRow(p)
           m1 == validate_email_unique(Visible(p), data.email)
           m2 == IF Truthy(data.phone) THEN validate_phone(data.phone) ELSE NoMsg
       IN  IF m1 # NoMsg THEN RowFails(p, m1)
           ELSE IF m2 # NoMsg THEN RowFails(p, m2)
           ELSE /\ pc' = [pc EXCEPT ![p] = "full_clean"]
                /\ UNCHANGED <<req, outcome>>
    /\ UNCHANGED <<customers, pending>>

\* customer = Customer(...); customer.full_clean()
FullClean(p) ==
    /\ UNCHANGED <<products, orders, order_products, priceAt, last>>
    /\ pc[p] = "full_clean"
    /\ LET msgs == full_clean(Visible(p), ConcCustomer(p))
       IN  IF msgs # NoMsg THEN RowFails(p, msgs)
           ELSE /\ pc' = [pc EXCEPT ![p] = "save"]
                /\ UNCHANGED <<req, outcome>>
    /\ UNCHANGED <<customers, pending>>

\* customer.save()
Save(p) ==
    /\ UNCHANGED <<products, orders, order_products, priceAt, last>>
    /\ pc[p] = "save"
    /\ LET c == ConcCustomer(p)
       IN  IF SaveRaises(Visible(p), c)
           THEN CallRaises(p, "IntegrityError")
           ELSE /\ \A q \in Requests : ~WaitsFor(p, q)
                /\ IF req[p].op = "createCustomer"
                   THEN /\ customers' = customers \cup {c}      \* autocommit
                        /\ outcome' = [outcome EXCEPT ![p] =
                               [raised |-> "", customer |-> {c},
                                message |-> "Customer created successfully",
                                errors |-> NoMsg]]
                        /\ pc' = [pc EXCEPT ![p] = "done"]
                        /\ UNCHANGED <<req, pending>>
                   ELSE /\ pending' = [pending EXCEPT ![p] = @ \cup {c}]
                        /\ req' = [req EXCEPT ![p].created = Append(@, c), ![p].k = @ + 1]
                        /\ pc' = [pc EXCEPT ![p] = AfterRow(p)]
                        /\ UNCHANGED <<customers, outcome>>

\* two transactions wait for each other's rows: the store ends one of them
DeadlockVictim(p) ==
    /\ UNCHANGED <<products, orders, order_products, priceAt, last>>
    /\ \E q \in Requests : WaitsFor(p, q) /\ WaitsFor(q, p)
    /\ CallRaises(p, "OperationalError")

\* return BulkCreateCustomers(...): @transaction.atomic commits
Commit(p) ==
    /\ UNCHANGED <<products, orders, order_products, priceAt, last>>
    /\ pc[p] = "commit"
    /\ customers' = customers \cup pending[p]
    /\ pending' = [pending EXCEPT ![p] = {}]
    /\ outcome' = [outcome EXCEPT ![p] =
           [raised |-> "", customers |-> req[p].created, errors |-> req[p].errors]]
    /\ pc' = [pc EXCEPT ![p] = "done"]
    /\ UNCHANGED req

\* the reply is sent; the worker takes the next request
Reply(p) ==
    /\ UNCHANGED <<products, orders, order_products, priceAt, last>>
    /\ pc[p] = "done"
    /\ pc' = [pc EXCEPT ![p] = "idle"]
    /\ req' = [req EXCEPT ![p] = <<>>]
    /\ outcome' = [outcome EXCEPT ![p] = <<>>]
    /\ UNCHANGED <<customers, pending>>

NextConc ==
    \E p \in Requests :
        \/ CallCreateCustomer(p)
        \/ CallBulkCreateCustomers(p)
        \/ PreCheck(p)
        \/ FullClean(p)
        \/ Save(p)
        \/ DeadlockVictim(p)
        \/ Commit(p)
        \/ Reply(p)

SpecConc == Init /\ [][NextConc]_vars

-----------------------------------------------------------------------------
(* Claims about concurrent customer creation *)

\* C1: under every interleaving of createCustomer and bulkCreateCustomers calls,
\* no two persisted customers have the same e-mail.
C1_NoTwoCustomersShareAnEmail ==
    \A c1 \in customers : \A c2 \in customers : c1.email = c2.email => c1 = c2

\* two requests passed every check with the same e-mail, one stored its row and
\* the other met the unique index
C1_Witness ==
    \E p \in Requests : \E q \in Requests :
        /\ pc[p] = "done" /\ pc[q] = "done"
        /\ outcome[p].raised = "IntegrityError"
        /\ outcome[q].raised = ""
        /\ \E c \in customers : c.email = CurrentRow(p).email

FinishedCreate(p) == pc[p] = "done" /\ req[p].op = "createCustomer"

\* C6: of two concurrent createCustomer calls with the same e-mail (and otherwise
\* valid arguments) at most one
\* succeeds, and the other gets a duplicate-email error as a structured outcome,
\* not an uncaught failure.
C6_ConcurrentDuplicateIsAStructuredError ==
    \A p \in Requests : \A q \in Requests :
        (/\ p # q
         /\ FinishedCreate(p) /\ FinishedCreate(q)
         /\ ValidCustomerInput(CurrentRow(p)) /\ ValidCustomerInput(CurrentRow(q))
         /\ CurrentRow(p).email = CurrentRow(q).email
         /\ outcome[q].raised = "" /\ outcome[q].customer # {})
        => /\ outcome[p].raised = ""
           /\ outcome[p].customer = {}
           /\ IsDuplicateEmailError(outcome[p].errors)

-----------------------------------------------------------------------------
(* crm/models.py: Product and Order.  order_date takes no part in what the    *)
(* mutations decide and is left out.                                          *)

MaxProducts == 2    \* rows of the Product table
MaxOrders == 2      \* rows of the Order table

Product_price_min == 0      \* MinValueValidator(0)
Product_stock_min == 0      \* MinValueValidator(0)

LowStockThreshold == 10     \* filter(stock__lt=10)
RestockQuantity == 10       \* product.stock += 10

IdMsg(text, ids) == [text |-> text, ids |-> ids]

\* product.full_clean()
product_full_clean(p) ==
    (IF p.name = <<>> THEN <<Msg("This field cannot be blank.", <<"name">>)>> ELSE NoMsg)
    \o (IF p.price < Product_price_min
        THEN <<Msg("Ensure this value is greater than or equal to 0.", <<"price">>)>>
        ELSE NoMsg)
    \o (IF p.stock < Product_stock_min
        THEN <<Msg("Ensure this value is greater than or equal to 0.", <<"stock">>)>>
        ELSE NoMsg)

\* str(n) and int(s) for primary keys
DigitText == <<"0", "1", "2", "3", "4", "5", "6", "7", "8", "9">>

RECURSIVE StrOf(_)
StrOf(n) == IF n < 10 THEN <<DigitText[n + 1]>> ELSE Append(StrOf(n \div 10), DigitText[(n % 10) + 1])

DigitValue(ch) == (CHOOSE i \in 1..10 : DigitText[i] = ch) - 1

RECURSIVE IntOf(_)
IntOf(s) ==
    IF Len(s) = 1 THEN DigitValue(s[1])
    ELSE 10 * IntOf(SubSeq(s, 1, Len(s) - 1)) + DigitValue(s[Len(s)])

RECURSIVE SumPrices(_)
SumPrices(ps) ==
    IF ps = {} THEN 0
    ELSE LET p == CHOOSE x \in ps : TRUE IN p.price + SumPrices(ps \ {p})

\* a queryset as a list, in primary-key order
RECURSIVE ListById(_)
ListById(rows) ==
    IF rows = {} THEN <<>>
    ELSE LET r == CHOOSE x \in rows : \A y \in rows : x.id <= y.id
         IN  <<r>> \o ListById(rows \ {r})

Range(f) == {f[i] : i \in DOMAIN f}

-----------------------------------------------------------------------------
(* CreateProduct.mutate *)

\* the price check letting zero through
PriceRejectedBelowZero(price) == price < 0

PriceRejected(price) == price <= 0
StockRejected(stock) == stock < 0

CreateProductResult(table, data) ==
    LET p == [id |-> NextId(table), name |-> data.name, price |-> data.price, stock |-> data.stock]
    IN  IF PriceRejected(data.price)
        THEN [table |-> table, product |-> {}, errors |-> <<Msg("Price must be positive", <<>>)>>]
        ELSE IF StockRejected(data.stock)
        THEN [table |-> table, product |-> {}, errors |-> <<Msg("Stock cannot be negative", <<>>)>>]
        ELSE IF product_full_clean(p) # NoMsg
        THEN [table |-> table, product |-> {}, errors |-> product_full_clean(p)]
        ELSE [table |-> table \cup {p}, product |-> {p}, errors |-> NoMsg]

(* CreateOrder.mutate, inside @transaction.atomic *)

\* Product.objects.filter(id__in=product_ids)
ProductsIn(table, product_ids) == {p \in table : p.id \in {IntOf(s) : s \in Range(product_ids)}}

\* total_amount left at its default
OrderAmountDefault(found) == 0

\* sum(p.price for p in products)
OrderAmount(found) == SumPrices(found)

CreateOrderResult(custs, prods, ords, assoc, customer_id, product_ids) ==
    LET unchanged == [orders |-> ords, order_products |-> assoc, order |-> {}]
        found == ProductsIn(prods, product_ids)
        invalid_ids == Range(product_ids) \ {StrOf(p.id) : p \in found}
        order == [id |-> NextId(ords), customer |-> IntOf(customer_id),
                  total_amount |-> OrderAmount(found)]
    IN  IF ~\E c \in custs : c.id = IntOf(customer_id)
        THEN [unchanged EXCEPT !.order = {}] @@
             [errors |-> <<IdMsg("Invalid customer ID", {customer_id})>>]
        ELSE IF Cardinality(found) # Len(product_ids)
        THEN unchanged @@ [errors |-> <<IdMsg("Invalid product IDs", invalid_ids)>>]
        ELSE IF found = {}
        THEN unchanged @@ [errors |-> <<IdMsg("At least one product is required", {})>>]
        ELSE [orders |-> ords \cup {order},
              order_products |-> assoc \cup {<<order.id, p.id>> : p \in found},
              order |-> {order},
              errors |-> NoMsg]

(* UpdateLowStockProducts.mutate *)

\* a restock of less than the threshold
RestockedByFive(p) == [p EXCEPT !.stock = @ + 5]

\* the threshold taken inclusively
IsLowStockInclusive(p) == p.stock <= LowStockThreshold

IsLowStock(p) == p.stock < LowStockThreshold

Restocked(p) == [p EXCEPT !.stock = @ + RestockQuantity]

UpdateLowStockProductsResult(table) ==
    LET low == {p \in table : IsLowStock(p)}
        updated == ListById({Restocked(p) : p \in low})
    IN  [table |-> (table \ low) \cup {Restocked(p) : p \in low},
         success |-> TRUE,
         message |-> IF updated # <<>> THEN "products updated at" ELSE "No low-stock products found",
         count |-> Len(updated),
         updated_products |-> updated]

-----------------------------------------------------------------------------
(* The product and order mutations, one call at a time *)

Product(name, price, stock) == [name |-> name, price |-> price, stock |-> stock]

\* createProduct arguments where orders are placed: one valid product, and one
\* input for every way of being refused
ShopProductInputs ==
    { Product(<<"P">>, 2, 9),
      Product(<<"P">>, 0, 9),
      Product(<<"P">>, -1, -1),
      Product(<<"P">>, 2, -1),
      Product(<<>>, 2, 9) }

\* createProduct arguments where stock is replenished: stocks around the threshold
StockProductInputs ==
    {Product(<<"P">>, price, stock) : price \in {1, 2}, stock \in {-1, 0, 9, 10, 11}}

CustomerIdSamples == {<<"1">>, <<"9">>}

\* productIds: empty, valid, repeated, unknown, and one unknown id among valid ones
ProductIdLists ==
    { <<>>,
      <<<<"1">>>>,
      <<<<"1">>, <<"2">>>>,
      <<<<"1">>, <<"1">>>>,
      <<<<"1">>, <<"9">>>>,
      <<<<"9">>>>,
      <<<<"1">>, <<"2">>, <<"9">>>> }

NewPriceSamples == {3}

\* the price of each of the given products, by primary key
PricesOf(rows) == [id \in {p.id : p \in rows} |-> (CHOOSE p \in rows : p.id = id).price]

Snapshot == [customers |-> customers, products |-> products,
             orders |-> orders, order_products |-> order_products]

CreateProductFrom(inputs) ==
    /\ Cardinality(products) < MaxProducts
    /\ \E data \in inputs :
          LET r == CreateProductResult(products, data)
          IN  /\ products' = r.table
              /\ last' = [op |-> "createProduct", args |-> data, pre |-> Snapshot,
                          product |-> r.product, errors |-> r.errors]
    /\ UNCHANGED <<customers, orders, order_products, priceAt, pc, req, pending, outcome>>

CreateOrder ==
    /\ Cardinality(orders) < MaxOrders
    /\ \E customer_id \in CustomerIdSamples : \E product_ids \in ProductIdLists :
          LET r == CreateOrderResult(customers, products, orders, order_products,
                                     customer_id, product_ids)
          IN  /\ orders' = r.orders
              /\ order_products' = r.order_products
              /\ priceAt' = IF r.order = {} THEN priceAt
                            ELSE Append(priceAt, PricesOf(ProductsIn(products, product_ids)))
              /\ last' = [op |-> "createOrder",
                          args |-> [customer_id |-> customer_id, product_ids |-> product_ids],
                          pre |-> Snapshot, order |-> r.order, errors |-> r.errors]
    /\ UNCHANGED <<customers, products, pc, req, pending, outcome>>

UpdateLowStockProducts ==
    LET r == UpdateLowStockProductsResult(products)
    IN  /\ products' = r.table
        /\ last' = [op |-> "updateLowStockProducts", pre |-> Snapshot, after |-> last.op,
                    success |-> r.success, message |-> r.message, count |-> r.count,
                    updated_products |-> r.updated_products]
        /\ UNCHANGED <<customers, orders, order_products, priceAt, pc, req, pending, outcome>>

\* a later change of a product's price, written to the Product table directly
ChangeProductPrice ==
    /\ \E p \in products : \E price \in NewPriceSamples :
          /\ price # p.price
          /\ products' = (products \ {p}) \cup {[p EXCEPT !.price = price]}
          /\ last' = [op |-> "changeProductPrice", args |-> [id |-> p.id, price |-> price],
                      pre |-> Snapshot]
    /\ UNCHANGED <<customers, orders, order_products, priceAt, pc, req, pending, outcome>>

CreateProduct == CreateProductFrom(ShopProductInputs)

CreateStockedProduct == CreateProductFrom(StockProductInputs)

Idle ==
    /\ last = NoCall
    /\ pc = [p \in Requests |-> "idle"]
    /\ req = [p \in Requests |-> <<>>]
    /\ pending = [p \in Requests |-> {}]
    /\ outcome = [p \in Requests |-> <<>>]

FirstCustomer == [id |-> 1, name |-> <<"A">>, email |-> EmailA, phone |-> None]

\* the store once createCustomer has created one customer
InitShop ==
    /\ customers = {FirstCustomer}
    /\ products = {}
    /\ orders = {}
    /\ order_products = {}
    /\ priceAt = <<>>
    /\ Idle

NextShop == CreateProduct \/ CreateOrder \/ UpdateLowStockProducts \/ ChangeProductPrice

SpecShop == InitShop /\ [][NextShop]_vars

\* the same store, or that store once createProduct and createOrder have created
\* one product and one order of it
InitStock ==
    \/ InitShop
    \/ /\ customers = {FirstCustomer}
       /\ products = {[id |-> 1, name |-> <<"P">>, price |-> 1, stock |-> 9]}
       /\ orders = {[id |-> 1, customer |-> 1, total_amount |-> 1]}
       /\ order_products = {<<1, 1>>}
       /\ priceAt = <<[id \in {1} |-> 1]>>
       /\ Idle

NextStock == CreateStockedProduct \/ UpdateLowStockProducts

SpecStock == InitStock /\ [][NextStock]_vars

-----------------------------------------------------------------------------
(* Claims about the product and order mutations *)

\* an id, as text, names a row of the table
Resolves(table, idText) == \E r \in table : r.id = IntOf(idText)

ProductIdsOf(assoc, orderId) == {pair[2] : pair \in {x \in assoc : x[1] = orderId}}

\* C2: createOrder persists exactly one new order, associated with exactly the
\* requested products, when the customer id resolves and the id list is non-empty
\* with every id resolving; in every other case it persists nothing and returns
\* an error that names the invalid ids.
C2_CreateOrderIsAllOrNothing ==
    last.op = "createOrder" =>
        LET ids == last.args.product_ids
            customerOk == Resolves(last.pre.customers, last.args.customer_id)
            unresolved == {s \in Range(ids) : ~Resolves(last.pre.products, s)}
        IN  IF customerOk /\ ids # <<>> /\ unresolved = {}
            THEN \E o \in orders \ last.pre.orders :
                    /\ orders = last.pre.orders \cup {o}
                    /\ last.order = {o}
                    /\ last.errors = NoMsg
                    /\ o.customer = IntOf(last.args.customer_id)
                    /\ ProductIdsOf(order_products, o.id) = {IntOf(s) : s \in Range(ids)}
                    /\ \A pair \in order_products \ last.pre.order_products : pair[1] = o.id
            ELSE /\ orders = last.pre.orders
                 /\ order_products = last.pre.order_products
                 /\ last.order = {}
                 /\ last.errors # NoMsg
                 /\ ~customerOk => \E i \in 1..Len(last.errors) :
                                      last.args.customer_id \in last.errors[i].ids
                 /\ customerOk => \A s \in unresolved : \E i \in 1..Len(last.errors) :
                                      s \in last.errors[i].ids

\* C8: every persisted product has price > 0 and stock >= 0, and createProduct
\* with price <= 0, or with stock < 0, returns the error of that field and
\* persists no product.
C8_ProductPriceAndStockStayValid ==
    /\ \A p \in products : p.price > 0 /\ p.stock >= 0
    /\ (last.op = "createProduct" /\ last.args.price <= 0) =>
          /\ last.errors = <<Msg("Price must be positive", <<>>)>>
          /\ last.product = {}
          /\ products = last.pre.products
    /\ (last.op = "createProduct" /\ last.args.price > 0 /\ last.args.stock < 0) =>
          /\ last.errors = <<Msg("Stock cannot be negative", <<>>)>>
          /\ last.product = {}
          /\ products = last.pre.products

\* a price of zero was refused while products, restocked ones among them, and an
\* order exist
C8_Witness ==
    /\ last.op = "createProduct"
    /\ last.args.price = 0
    /\ last.product = {}
    /\ orders # {}
    /\ \E p \in products : p.stock >= 10 + 9

\* orderTotal(order): the sum of the current prices of the order's products
orderTotal(o) == SumPrices({p \in products : <<o.id, p.id>> \in order_products})

RECURSIVE SumAt(_, _)
SumAt(prices, ids) ==
    IF ids = {} THEN 0
    ELSE LET id == CHOOSE x \in ids : TRUE IN prices[id] + SumAt(prices, ids \ {id})

\* C9: the stored total_amount of every order is the sum of the prices its
\* products had when the order was created, whatever happened since, also a
\* change of a product's price.
C9_TotalAmountIsTheSnapshotAtCreation ==
    \A o \in orders :
        o.total_amount = SumAt(priceAt[o.id], ProductIdsOf(order_products, o.id))

\* a price changed after the order was created: the recomputed total differs
\* from the stored one
C9_Witness ==
    \E o \in orders :
        /\ Cardinality(ProductIdsOf(order_products, o.id)) = 2
        /\ orderTotal(o) # o.total_amount

\* C10: updateLowStockProducts adds exactly 10 to the stock of every product
\* whose stock was below 10, changes nothing else, reports success and returns
\* exactly the products it updated, or none with the 'none found' message.
C10_RestockAddsTenToLowStockOnly ==
    last.op = "updateLowStockProducts" =>
        LET before == last.pre.products
            low == {p \in before : p.stock < 10}
            updated == last.updated_products
        IN  /\ last.success
            /\ Cardinality(products) = Cardinality(before)
            /\ \A p \in before :
                  [p EXCEPT !.stock = IF p.stock < 10 THEN p.stock + 10 ELSE p.stock] \in products
            /\ customers = last.pre.customers
            /\ orders = last.pre.orders
            /\ order_products = last.pre.order_products
            /\ Len(updated) = Cardinality(low)
            /\ {updated[i].id : i \in 1..Len(updated)} = {p.id : p \in low}
            /\ \A i \in 1..Len(updated) : updated[i] \in products
            /\ low = {} => updated = <<>> /\ last.message = "No low-stock products found"
            /\ low # {} => last.message = "products updated at" /\ last.count = Cardinality(low)

\* one call restocked a product and left another, with stock 10, alone
C10_Witness ==
    /\ last.op = "updateLowStockProducts"
    /\ \E p \in last.pre.products : p.stock = 9
    /\ \E p \in last.pre.products : p.stock = 10
    /\ Len(last.updated_products) = 1
    /\ orders # {}

\* C11: an updateLowStockProducts call that follows another one directly, with no
\* other mutation in between, updates no product, leaves every stock as it was
\* and reports that no low-stock product was found.
C11_SecondRestockChangesNothing ==
    (last.op = "updateLowStockProducts" /\ last.after = "updateLowStockProducts") =>
        /\ products = last.pre.products
        /\ last.updated_products = <<>>
        /\ last.count = 0
        /\ last.message = "No low-stock products found"
        /\ \A p \in products : ~IsLowStock(p)

\* the second of two calls in a row found a product that the first had restocked
\* from 9 to 19
C11_Witness ==
    /\ last.op = "updateLowStockProducts"
    /\ last.after = "updateLowStockProducts"
    /\ \E p \in products : p.stock = 9 + RestockQuantity
    /\ last.updated_products = <<>>

-----------------------------------------------------------------------------
(* Concurrent requests: updateLowStockProducts, one statement at a time.      *)
(* mutate opens no transaction, so every product.save() is committed by       *)
(* itself; the selection is read once, when the loop starts, into objects in  *)
(* memory, and save() writes the object's fields over the stored row.         *)

MaxRestockProducts == 2     \* rows of the Product table when the calls start

RestockStockSamples == {0, 5, 9, 10}

\* the Product tables the calls may find: ids 1..n, stocks around the threshold
RestockTables ==
    UNION { { {[id |-> i, name |-> <<"P">>, price |-> 1, stock |-> f[i]] : i \in 1..n}
              : f \in [1..n -> RestockStockSamples] }
            : n \in 0..MaxRestockProducts }

\* the store before any of the concurrent calls
StoreBefore == [op |-> "none", pre |-> Snapshot]

InitRestock ==
    /\ customers = {FirstCustomer}
    /\ products \in RestockTables
    /\ orders = {}
    /\ order_products = {}
    /\ priceAt = <<>>
    /\ last = StoreBefore
    /\ pc = [p \in Requests |-> "idle"]
    /\ req = [p \in Requests |-> <<>>]
    /\ pending = [p \in Requests |-> {}]
    /\ outcome = [p \in Requests |-> <<>>]

\* a save() that adds to the stored stock instead of writing the object's stock
SavedRowAddingToStored(row, stored) == [row EXCEPT !.stock = stored.stock + RestockQuantity]

\* product.save(): UPDATE ... SET every column to the object's value
SavedRow(row, stored) == row

CallUpdateLowStockProducts(p) ==
    /\ pc[p] = "idle"
    /\ req' = [req EXCEPT ![p] =
                 [op |-> "updateLowStockProducts", rows |-> <<>>, i |-> 1, updated |-> <<>>]]
    /\ pc' = [pc EXCEPT ![p] = "select"]
    /\ UNCHANGED <<customers, products, orders, order_products, priceAt, last, pending, outcome>>

\* for product in Product.objects.filter(stock__lt=10): the query runs once
SelectLowStock(p) ==
    /\ pc[p] = "select"
    /\ LET rows == ListById({r \in products : IsLowStock(r)})
       IN  /\ req' = [req EXCEPT ![p].rows = rows]
           /\ pc' = [pc EXCEPT ![p] = IF rows = <<>> THEN "return" ELSE "increment"]
    /\ UNCHANGED <<customers, products, orders, order_products, priceAt, last, pending, outcome>>

\* product.stock += 10, on the object in memory
IncrementStock(p) ==
    /\ pc[p] = "increment"
    /\ req' = [req EXCEPT ![p].rows[req[p].i] = Restocked(@)]
    /\ pc' = [pc EXCEPT ![p] = "save_product"]
    /\ UNCHANGED <<customers, products, orders, order_products, priceAt, last, pending, outcome>>

\* product.save(); updated.append(product)
SaveProduct(p) ==
    /\ pc[p] = "save_product"
    /\ LET row == req[p].rows[req[p].i]
           stored == CHOOSE r \in products : r.id = row.id
       IN  /\ products' = (products \ {stored}) \cup {SavedRow(row, stored)}
           /\ req' = [req EXCEPT ![p].updated = Append(@, row), ![p].i = @ + 1]
    /\ pc' = [pc EXCEPT ![p] = IF req[p].i = Len(req[p].rows) THEN "return" ELSE "increment"]
    /\ UNCHANGED <<customers, orders, order_products, priceAt, last, pending, outcome>>

\* product.save() fails in the store: the exception leaves mutate, and what the
\* earlier save() calls wrote stays written
SaveProductFails(p) ==
    /\ pc[p] = "save_product"
    /\ outcome' = [outcome EXCEPT ![p] = Raised("OperationalError")]
    /\ pc' = [pc EXCEPT ![p] = "done"]
    /\ UNCHANGED <<customers, products, orders, order_products, priceAt, last, pending, req>>

\* return UpdateLowStockProducts(success=True, message=..., updated_products=...)
ReturnUpdated(p) ==
    /\ pc[p] = "return"
    /\ outcome' = [outcome EXCEPT ![p] =
           [raised |-> "", success |-> TRUE,
            message |-> IF req[p].updated # <<>> THEN "products updated at"
                        ELSE "No low-stock products found",
            count |-> Len(req[p].updated),
            updated_products |-> req[p].updated]]
    /\ pc' = [pc EXCEPT ![p] = "done"]
    /\ UNCHANGED <<customers, products, orders, order_products, priceAt, last, pending, req>>

NextRestock ==
    \E p \in Requests :
        \/ CallUpdateLowStockProducts(p)
        \/ SelectLowStock(p)
        \/ IncrementStock(p)
        \/ SaveProduct(p)
        \/ SaveProductFails(p)
        \/ ReturnUpdated(p)

SpecRestock == InitRestock /\ [][NextRestock]_vars

-----------------------------------------------------------------------------
(* Claims about updateLowStockProducts one statement at a time *)

\* C12: when an updateLowStockProducts call, running alone, ends with a storage
\* error, none of its stock increments remains: the Product table is the one the
\* call found.
C12_FailedRestockLeavesNoIncrement ==
    \A p \in Requests :
        (/\ pc[p] = "done"
         /\ outcome[p] = Raised("OperationalError")
         /\ \A q \in Requests \ {p} : pc[q] = "idle")
        => products = last.pre.products

\* the stock the two calls must leave: ten more where it was below ten
StockAfterOneRestock(before) ==
    {[r EXCEPT !.stock = IF r.stock < 10 THEN r.stock + 10 ELSE r.stock] : r \in before}

\* C17: under every interleaving of two concurrent updateLowStockProducts calls,
\* no product's stock ever exceeds its initial stock plus 10, and once both calls
\* have returned every product that started between 0 and 9 has exactly its
\* initial stock plus 10, every other product its initial stock.
C17_ConcurrentRestocksAddTenOnce ==
    /\ \A r \in products : \E b \in last.pre.products :
          /\ b.id = r.id
          /\ r.stock \in {b.stock, b.stock + 10}
          /\ b.stock >= 10 => r.stock = b.stock
    /\ (\A p \in Requests : pc[p] = "done" /\ outcome[p].raised = "")
          => products = StockAfterOneRestock(last.pre.products)

\* both calls selected the same low-stock products before either saved, and both
\* saved them
C17_Witness ==
    /\ \A p \in Requests :
          /\ pc[p] = "done"
          /\ outcome[p].raised = ""
          /\ Len(outcome[p].updated_products) = 2
    /\ \E b \in last.pre.products : b.stock = 5
    /\ products = StockAfterOneRestock(last.pre.products)

-----------------------------------------------------------------------------
(* Claims about bulkCreateCustomers beside a concurrent writer *)

\* the bulkCreateCustomers call of request p stopped at a row whose e-mail passed
\* the pre-check and was committed by another request before the row was saved
StorageConflictAtRow(p) ==
    /\ pc[p] = "done"
    /\ req[p].op = "bulkCreateCustomers"
    /\ req[p].k \in 1..Len(req[p].input)
    /\ outcome[p] # Raised("OperationalError")
    /\ CustomersWithEmail(customers, CurrentRow(p).email) # {}

\* C15: when a concurrent writer commits the e-mail of row k between the row's
\* pre-check and its save, bulkCreateCustomers still completes, reports a
\* duplicate-email error for the row, and the rows it accepted before row k are
\* committed.
C15_StorageConflictIsARowError ==
    \A p \in Requests :
        StorageConflictAtRow(p) =>
            /\ outcome[p].raised = ""
            /\ outcome[p].errors # NoMsg
            /\ \A i \in 1..Len(req[p].created) : req[p].created[i] \in customers

-----------------------------------------------------------------------------
(* crm/filters.py.  A criterion of a filter specification is a set: empty    *)
(* when the criterion is not given, and holding the value when it is.         *)

NotGiven == {}
Given(v) == {v}
ValueOf(c) == CHOOSE v \in c : TRUE

\* django_filters: a value in EMPTY_VALUES (None, and the empty text) leaves the
\* queryset as it is
IsEmptyValue(c) == c = NotGiven
IsEmptyText(c) == c = NotGiven \/ ValueOf(c) = <<>>

LowerCase == [ch \in {"A", "B", "D", "P", "T"} |->
                 CASE ch = "A" -> "a" [] ch = "B" -> "b" [] ch = "D" -> "d"
                   [] ch = "P" -> "p" [] ch = "T" -> "t"]

ToLower(text) == [i \in 1..Len(text) |->
                     IF text[i] \in DOMAIN LowerCase THEN LowerCase[text[i]] ELSE text[i]]

\* lookup_expr="icontains"
icontains(text, sub) ==
    \E i \in 1..(Len(text) - Len(sub) + 1) :
        SubSeq(ToLower(text), i, i + Len(sub) - 1) = ToLower(sub)

(* ProductFilter *)

ProductFilter_name(qs, c) ==
    IF IsEmptyText(c) THEN qs ELSE {p \in qs : icontains(p.name, ValueOf(c))}

price__gte(qs, c) == IF IsEmptyValue(c) THEN qs ELSE {p \in qs : p.price >= ValueOf(c)}

\* the upper bound taken exclusively
price__lt(qs, c) == IF IsEmptyValue(c) THEN qs ELSE {p \in qs : p.price < ValueOf(c)}

price__lte(qs, c) == IF IsEmptyValue(c) THEN qs ELSE {p \in qs : p.price <= ValueOf(c)}

stock__gte(qs, c) == IF IsEmptyValue(c) THEN qs ELSE {p \in qs : p.stock >= ValueOf(c)}

stock__lte(qs, c) == IF IsEmptyValue(c) THEN qs ELSE {p \in qs : p.stock <= ValueOf(c)}

filter_low_stock(qs, c) ==
    IF IsEmptyValue(c) THEN qs
    ELSE IF ValueOf(c) THEN {p \in qs : p.stock < 10}
    ELSE qs

\* the filters are applied one after the other, each to the result of the one before
ProductFilter(qs, data) ==
    filter_low_stock(
      stock__lte(
        stock__gte(
          price__lte(
            price__gte(
              ProductFilter_name(qs, data.name),
              data.price__gte),
            data.price__lte),
          data.stock__gte),
        data.stock__lte),
      data.low_stock)

\* Query.resolve_all_products, no order_by given, and the filter set on its queryset
resolve_all_products(table, data) == ProductFilter(table, data)

ProductSpec(name, price__gte_, price__lte_, stock__gte_, stock__lte_, low_stock) ==
    [name |-> name, price__gte |-> price__gte_, price__lte |-> price__lte_,
     stock__gte |-> stock__gte_, stock__lte |-> stock__lte_, low_stock |-> low_stock]

PriceBoundSamples == {NotGiven} \cup {Given(v) : v \in 0..4}

\* every pair of price bounds alone, and the price bounds beside other criteria
ProductFilterSpecs ==
    {ProductSpec(NotGiven, a, b, NotGiven, NotGiven, NotGiven) :
        a \in PriceBoundSamples, b \in PriceBoundSamples}
    \cup {ProductSpec(Given(<<"p", "A">>), Given(1), Given(3), NotGiven, NotGiven, NotGiven),
          ProductSpec(Given(<<>>), Given(2), NotGiven, NotGiven, NotGiven, Given(FALSE)),
          ProductSpec(NotGiven, Given(1), Given(3), NotGiven, NotGiven, Given(TRUE)),
          ProductSpec(NotGiven, Given(2), Given(3), Given(9), Given(10), NotGiven)}

\* createProduct arguments where queries are made: three names, prices and stocks
QueryProductInputs ==
    { Product(<<"P", "a", "d">>, 1, 9),
      Product(<<"p", "a">>, 2, 10),
      Product(<<"T", "a", "b">>, 3, 0) }

CreateQueryProduct == CreateProductFrom(QueryProductInputs)

AllProducts ==
    /\ \E data \in ProductFilterSpecs :
          last' = [op |-> "allProducts", args |-> data,
                   result |-> resolve_all_products(products, data)]
    /\ UNCHANGED <<customers, products, orders, order_products, priceAt,
                   pc, req, pending, outcome>>

NextProductQuery == CreateQueryProduct \/ AllProducts

SpecProductQuery == InitShop /\ [][NextProductQuery]_vars

\* only the two price bounds are given, or nothing at all
OnlyPriceBounds(data) ==
    /\ data.name = NotGiven
    /\ data.stock__gte = NotGiven /\ data.stock__lte = NotGiven
    /\ data.low_stock = NotGiven

\* C13: a Product query with priceMin=a and priceMax=b returns exactly the
\* products with a <= price <= b, an absent bound not restricting, none without
\* error when a > b, and every product when the specification is empty; beside
\* other criteria the bounds still hold for every product returned.
C13_PriceBoundsAreInclusiveAndConjoined ==
    last.op = "allProducts" =>
        LET data == last.args
            inRange(p) == /\ \A a \in data.price__gte : a <= p.price
                          /\ \A b \in data.price__lte : p.price <= b
        IN  /\ last.result \subseteq {p \in products : inRange(p)}
            /\ OnlyPriceBounds(data) => last.result = {p \in products : inRange(p)}

\* a query with both bounds returned one product whose price is the upper bound
\* and left another out
C13_Witness ==
    /\ last.op = "allProducts"
    /\ OnlyPriceBounds(last.args)
    /\ last.args.price__gte = Given(2) /\ last.args.price__lte = Given(3)
    /\ Cardinality(last.result) = 1
    /\ \E p \in last.result : p.price = 3
    /\ Cardinality(products) = 2

-----------------------------------------------------------------------------
(* OrderFilter.  A queryset of orders is a set of result rows: the order's id  *)
(* and the product reached by each join that a filter on Order.products has    *)
(* added; an order is returned once for every one of its rows.  The criteria   *)
(* on order_date and on the customer's name are not given in the queries here. *)

\* the names Order answers to: its fields, and the column of its foreign key
Order_field_names == {"id", "customer", "customer_id", "products", "total_amount", "order_date"}

\* Order.objects.all()
AllOrderRows(ords) == {[order |-> o.id, joined |-> <<>>] : o \in ords}

\* the rows of a queryset beside the products of each row's order
WithProducts(qs, prods, assoc) == {y \in qs \X prods : <<y[1].order, y[2].id>> \in assoc}

\* the join made by queryset.filter(products__...): one row for every product
\* of the order that the condition held for
JoinedRows(pairs) ==
    {[order |-> x[1].order, joined |-> Append(x[1].joined, x[2].id)] : x \in pairs}

\* .distinct(): rows are compared on the order's columns
distinct(qs) == {[order |-> r.order, joined |-> <<>>] : r \in qs}

\* product_name = CharFilter(field_name="products__name", lookup_expr="icontains")
product_name(qs, prods, assoc, c) ==
    IF IsEmptyText(c) THEN qs
    ELSE JoinedRows({y \in WithProducts(qs, prods, assoc) : icontains(y[2].name, ValueOf(c))})

filter_product_id(qs, prods, assoc, c) ==
    IF IsEmptyValue(c) THEN qs
    ELSE distinct(JoinedRows({y \in WithProducts(qs, prods, assoc) : y[2].id = ValueOf(c)}))

Rows(qs) == [raised |-> "", rows |-> qs]

\* queryset.annotate(<alias>=Sum("products__price")): refused when the alias is
\* the name of a field of the model; otherwise one row per order, with the sum
\* over the products of the join already made, or over all of the order's
\* products when there is none
annotate(qs, prods, assoc, alias) ==
    IF alias \in Order_field_names
    THEN Raised("ValueError")
    ELSE Rows({ [order |-> o, joined |-> <<>>,
                 sum |-> SumPrices({p \in prods :
                            /\ <<o, p.id>> \in assoc
                            /\ \A r \in qs : (r.order = o /\ r.joined # <<>>) =>
                                  \E r2 \in qs : r2.order = o /\ r2.joined # <<>>
                                                 /\ r2.joined[Len(r2.joined)] = p.id})]
                : o \in {r.order : r \in qs} })

annotate_total(qs, prods, assoc) == annotate(qs, prods, assoc, "total_amount")

filter_total_amount_gte(qs, prods, assoc, c) ==
    IF IsEmptyValue(c) THEN Rows(qs)
    ELSE LET a == annotate_total(qs, prods, assoc)
         IN  IF a.raised # "" THEN a ELSE Rows({r \in a.rows : r.sum >= ValueOf(c)})

filter_total_amount_lte(qs, prods, assoc, c) ==
    IF IsEmptyValue(c) THEN Rows(qs)
    ELSE LET a == annotate_total(qs, prods, assoc)
         IN  IF a.raised # "" THEN a ELSE Rows({r \in a.rows : r.sum <= ValueOf(c)})

\* the filters are applied in the order of Meta.fields
OrderFilter(qs, prods, assoc, data) ==
    LET q1 == product_name(qs, prods, assoc, data.product_name)
        q2 == filter_product_id(q1, prods, assoc, data.product_id)
        q3 == filter_total_amount_gte(q2, prods, assoc, data.total_amount__gte)
    IN  IF q3.raised # "" THEN q3
        ELSE filter_total_amount_lte(q3.rows, prods, assoc, data.total_amount__lte)

\* Query.resolve_all_orders, no order_by given, and the filter set on its queryset
resolve_all_orders(ords, prods, assoc, data) == OrderFilter(AllOrderRows(ords), prods, assoc, data)

OrderSpec(name, id, gte, lte) ==
    [product_name |-> name, product_id |-> id, total_amount__gte |-> gte, total_amount__lte |-> lte]

OrderFilterSpecs ==
    { OrderSpec(NotGiven, NotGiven, NotGiven, NotGiven),
      OrderSpec(Given(<<"A">>), NotGiven, NotGiven, NotGiven),
      OrderSpec(Given(<<"p", "a", "D">>), NotGiven, NotGiven, NotGiven),
      OrderSpec(Given(<<"x">>), NotGiven, NotGiven, NotGiven),
      OrderSpec(Given(<<>>), NotGiven, NotGiven, NotGiven),
      OrderSpec(NotGiven, Given(1), NotGiven, NotGiven),
      OrderSpec(NotGiven, Given(2), NotGiven, NotGiven),
      OrderSpec(NotGiven, Given(9), NotGiven, NotGiven),
      OrderSpec(Given(<<"A">>), Given(1), NotGiven, NotGiven),
      OrderSpec(NotGiven, NotGiven, Given(2), NotGiven),
      OrderSpec(NotGiven, NotGiven, NotGiven, Given(3)),
      OrderSpec(NotGiven, NotGiven, Given(2), Given(3)),
      OrderSpec(Given(<<"A">>), NotGiven, Given(2), NotGiven),
      OrderSpec(NotGiven, Given(1), NotGiven, Given(3)) }

AllOrders ==
    /\ \E data \in OrderFilterSpecs :
          LET r == resolve_all_orders(orders, products, order_products, data)
          IN  last' = [op |-> "allOrders", args |-> data, raised |-> r.raised,
                       result |-> IF r.raised = "" THEN r.rows ELSE {}]
    /\ UNCHANGED <<customers, products, orders, order_products, priceAt,
                   pc, req, pending, outcome>>

NextOrderQuery == CreateQueryProduct \/ CreateOrder \/ ChangeProductPrice \/ AllOrders

SpecOrderQuery == InitShop /\ [][NextOrderQuery]_vars

-----------------------------------------------------------------------------
(* Claims about Order queries *)

\* the order has a product whose name contains s, whatever the case of the letters
HasProductNamed(o, s) ==
    \E p \in products : <<o.id, p.id>> \in order_products /\ icontains(p.name, s)

HasProduct(o, id) == <<o.id, id>> \in order_products

\* the order meets the productNameContains and productId criteria that are given
MeetsProductCriteria(o, data) ==
    /\ \A s \in data.product_name : HasProductNamed(o, s)
    /\ \A id \in data.product_id : HasProduct(o, id)

TimesReturned(o) == Cardinality({r \in last.result : r.order = o.id})

\* C14: an Order query with totalAmountMin=m and/or totalAmountMax=M, alone or
\* beside productNameContains or productId, returns exactly the orders that meet
\* the other criteria and whose sum of the current prices of all their products
\* is >= m and <= M.
C14_TotalBoundsUseTheCurrentPriceSum ==
    (/\ last.op = "allOrders"
     /\ last.args.total_amount__gte # NotGiven \/ last.args.total_amount__lte # NotGiven)
    => /\ last.raised = ""
       /\ {r.order : r \in last.result} =
            {o.id : o \in {x \in orders :
                /\ MeetsProductCriteria(x, last.args)
                /\ \A m \in last.args.total_amount__gte : orderTotal(x) >= m
                /\ \A M \in last.args.total_amount__lte : orderTotal(x) <= M}}

\* C16: an Order query with productNameContains=s and/or productId returns every
\* order that has a product whose name contains s (case-insensitively) and that
\* contains the product, exactly once, and no other order.
C16_MatchingOrdersAreReturnedOnce ==
    (/\ last.op = "allOrders"
     /\ last.args.total_amount__gte = NotGiven /\ last.args.total_amount__lte = NotGiven)
    => /\ last.raised = ""
       /\ \A o \in orders :
             TimesReturned(o) = IF MeetsProductCriteria(o, last.args) THEN 1 ELSE 0

====
